---- MODULE Spec2Model ----
(***************************************************************************)
(* Model of SingleRun/fitFunc.ipynb: the background function bkg, the two  *)
(* fit routines fit_bkg and fit_sig, and plot_fit.                         *)
(*                                                                         *)
(* Real numbers are exact rationals <<num, den>> with den > 0, kept in     *)
(* lowest terms; <<1,0>>, <<-1,0>> and <<0,0>> stand for +inf, -inf and    *)
(* NaN, the values numpy produces on a division by zero.                   *)
(***************************************************************************)
EXTENDS Integers, Sequences, FiniteSets, TLC

VARIABLES x, y, w, calls, plot, bk

vars == <<x, y, w, calls, plot, bk>>

(***************************************************************************)
(* Bounds of the model.                                                    *)
(***************************************************************************)
\* number of sample points of the spectrum (length of x, y and w)
NPoints == 2
\* how far the minimiser moves a free parameter away from its start value
Delta == 20
\* fit calls in one session of the repeated-call specification
MaxCalls == 3
\* bkg is evaluated on arguments in -MaxAbs .. MaxAbs
MaxAbs == 1

(***************************************************************************)
(* Exact rational arithmetic (python floats / numpy float64).              *)
(***************************************************************************)
Abs(n) == IF n < 0 THEN -n ELSE n

Sign(n) == IF n < 0 THEN -1 ELSE IF n > 0 THEN 1 ELSE 0

RECURSIVE GCD(_, _)
GCD(m, n) == IF n = 0 THEN m ELSE GCD(n, m % n)

\* the rational n/d; a zero denominator gives +-inf, 0/0 gives NaN
Norm(n, d) ==
    IF d = 0 THEN <<Sign(n), 0>>
    ELSE LET g == GCD(Abs(n), Abs(d))
             s == IF d < 0 THEN -1 ELSE 1
         IN  <<(s * n) \div g, (s * d) \div g>>

R(n) == <<n, 1>>

NaN == <<0, 0>>
PosInf == <<1, 0>>
NegInf == <<-1, 0>>

IsFinite(p) == p[2] # 0

RNeg(p) == <<-p[1], p[2]>>

RAdd(p, q) ==
    IF IsFinite(p) /\ IsFinite(q)
    THEN Norm(p[1] * q[2] + q[1] * p[2], p[2] * q[2])
    ELSE IF p = NaN \/ q = NaN THEN NaN
    ELSE IF ~IsFinite(p) /\ ~IsFinite(q)
         THEN (IF p = q THEN p ELSE NaN)
    ELSE IF IsFinite(p) THEN q ELSE p

RSub(p, q) == RAdd(p, RNeg(q))

RMul(p, q) ==
    IF IsFinite(p) /\ IsFinite(q) THEN Norm(p[1] * q[1], p[2] * q[2])
    ELSE IF p = NaN \/ q = NaN THEN NaN
    ELSE <<Sign(p[1]) * Sign(q[1]), 0>>

RDiv(p, q) ==
    IF IsFinite(p) /\ IsFinite(q) THEN Norm(p[1] * q[2], p[2] * q[1])
    ELSE IF p = NaN \/ q = NaN THEN NaN
    ELSE IF ~IsFinite(p) /\ ~IsFinite(q) THEN NaN
    ELSE IF IsFinite(p) THEN R(0)
    ELSE <<Sign(p[1]) * (IF q[1] < 0 THEN -1 ELSE 1), 0>>

\* p < q, p <= q on finite values and infinities (false on NaN)
RLt(p, q) ==
    /\ p # NaN
    /\ q # NaN
    /\ IF IsFinite(p) /\ IsFinite(q) THEN p[1] * q[2] < q[1] * p[2]
       ELSE IF IsFinite(p) THEN q = PosInf
       ELSE IF IsFinite(q) THEN p = NegInf
       ELSE p = NegInf /\ q = PosInf

RLe(p, q) == p # NaN /\ q # NaN /\ (p = q \/ RLt(p, q))

\* np.sqrt on a perfect square
Sqrt(n) == CHOOSE r \in 0..2000 : r * r = n

(***************************************************************************)
(* Complex numbers [re, im] and the magnitude abs(z), kept as the exact    *)
(* real sqrt(re^2 + im^2) in the form [sqrt_of |-> re^2 + im^2].           *)
(***************************************************************************)
Cx(re, im) == [re |-> re, im |-> im]

CMul(u, v) ==
    Cx(RSub(RMul(u.re, v.re), RMul(u.im, v.im)),
       RAdd(RMul(u.re, v.im), RMul(u.im, v.re)))

CAdd(u, v) == Cx(RAdd(u.re, v.re), RAdd(u.im, v.im))

\* the imaginary unit 1j
J == Cx(R(0), R(1))

\* abs(z) of a complex z
CAbs(z) == [sqrt_of |-> RAdd(RMul(z.re, z.re), RMul(z.im, z.im))]

\* m**2 of a magnitude m = sqrt(q)
Pow2(m) == m.sqrt_of

(***************************************************************************)
(* bkg(x, a, b, c, d, e, f)                                                *)
(*   = e**2*abs(x-a+1j*b)**2/abs(x-c+1j*d)**2+f*(x-c)                      *)
(***************************************************************************)
\* the same expression with the imaginary unit dropped: abs(x-a+b)**2
bkg_no_j(xx, a, b, c, d, e, f) ==
    RAdd(RDiv(RMul(RMul(e, e),
                   Pow2(CAbs(Cx(RAdd(RSub(xx, a), b), R(0))))),
              Pow2(CAbs(Cx(RAdd(RSub(xx, c), d), R(0))))),
         RMul(f, RSub(xx, c)))

bkg(xx, a, b, c, d, e, f) ==
    RAdd(RDiv(RMul(RMul(e, e),
                   Pow2(CAbs(CAdd(Cx(RSub(xx, a), R(0)), CMul(J, Cx(b, R(0))))))),
              Pow2(CAbs(CAdd(Cx(RSub(xx, c), R(0)), CMul(J, Cx(d, R(0))))))),
         RMul(f, RSub(xx, c)))

(***************************************************************************)
(* lmfit parameters.  A Parameter has a value, bounds and a vary flag; a   *)
(* value outside the bounds is moved onto the nearest bound when the       *)
(* parameter is made, and the minimiser confines a free parameter to its   *)
(* bounds.                                                                 *)
(***************************************************************************)
ParamNames == {"a", "b", "c", "d", "e", "f"}

\* v confined to [lo, hi]
Clip(v, lo, hi) == IF RLt(v, lo) THEN lo ELSE IF RLt(hi, v) THEN hi ELSE v

\* {'value': value, 'min': min, 'max': max, 'vary': vary}
Parameter(value, min, max, vary) ==
    LET lo == IF RLt(max, min) THEN max ELSE min
        hi == IF RLt(max, min) THEN min ELSE max
    IN  [value |-> Clip(value, lo, hi), min |-> lo, max |-> hi, vary |-> vary]

\* a parameter given by its value alone: free, unbounded
Free(value) == Parameter(value, NegInf, PosInf, TRUE)

\* 1e-12*ref
Tiny(ref) == RMul(<<1, 1000000>>, RMul(<<1, 1000000>>, R(ref)))

\* make_params of fit_bkg, with a and c left without bounds
bkg_params_unbounded(center, ref) ==
    [a |-> Free(R(center)),
     b |-> Free(R(20000)),
     c |-> Free(R(center)),
     d |-> Free(R(22000)),
     e |-> Free(RMul(<<1, 100>>, R(Sqrt(ref)))),
     f |-> Free(Tiny(ref))]

\* bkg_model.make_params(...) in fit_bkg
bkg_params(center, ref) ==
    [a |-> Parameter(R(center), RMul(R(center), <<999, 1000>>),
                     RMul(R(center), <<101, 100>>), TRUE),
     b |-> Free(R(20000)),
     c |-> Parameter(R(center), RMul(R(center), <<999, 1000>>),
                     RMul(R(center), <<101, 100>>), TRUE),
     d |-> Free(R(22000)),
     e |-> Free(RMul(<<1, 100>>, R(Sqrt(ref)))),
     f |-> Free(Tiny(ref))]

\* make_params of fit_sig with the background parameters always free
sig_params_free(init_params, x_0, mu_init, mu_vary, par_vary) ==
    [n \in ParamNames |-> Parameter(init_params[n], NegInf, PosInf, TRUE)]
    @@ [mu |-> Parameter(mu_init, R(0), PosInf, mu_vary),
        x0 |-> Parameter(x_0, NegInf, PosInf, FALSE),
        s  |-> Parameter(R(16 * 651), NegInf, PosInf, FALSE)]

\* make_params of fit_sig with x0 and s left free
sig_params_x0_free(init_params, x_0, mu_init, mu_vary, par_vary) ==
    [n \in ParamNames |-> Parameter(init_params[n], NegInf, PosInf, par_vary)]
    @@ [mu |-> Parameter(mu_init, R(0), PosInf, mu_vary),
        x0 |-> Parameter(x_0, NegInf, PosInf, TRUE),
        s  |-> Parameter(R(16 * 651), NegInf, PosInf, TRUE)]

\* make_params of fit_sig with no lower bound on mu
sig_params_mu_unbounded(init_params, x_0, mu_init, mu_vary, par_vary) ==
    [n \in ParamNames |-> Parameter(init_params[n], NegInf, PosInf, par_vary)]
    @@ [mu |-> Parameter(mu_init, NegInf, PosInf, mu_vary),
        x0 |-> Parameter(x_0, NegInf, PosInf, FALSE),
        s  |-> Parameter(R(16 * 651), NegInf, PosInf, FALSE)]

\* sig_model.make_params(...) in fit_sig
sig_params(init_params, x_0, mu_init, mu_vary, par_vary) ==
    [n \in ParamNames |-> Parameter(init_params[n], NegInf, PosInf, par_vary)]
    @@ [mu |-> Parameter(mu_init, R(0), PosInf, mu_vary),
        x0 |-> Parameter(x_0, NegInf, PosInf, FALSE),
        s  |-> Parameter(R(16 * 651), NegInf, PosInf, FALSE)]

(***************************************************************************)
(* Model.fit.  The minimiser is the library's: what it answers is an input *)
(* sol = [step, best_fit, success]: the direction it moves the free        *)
(* parameters in, the model curve at the values it ends on, and whether    *)
(* it converged.  A parameter that does not vary keeps its value, a free   *)
(* one ends inside its bounds.                                             *)
(***************************************************************************)
minimize(ps, sol) ==
    [n \in DOMAIN ps |->
        IF ps[n].vary
        THEN [ps[n] EXCEPT !.value =
                 Clip(RAdd(ps[n].value, R(sol.step * Delta)), ps[n].min, ps[n].max)]
        ELSE ps[n]]

\* weights=1/w
inv_weights(ww) == [i \in DOMAIN ww |-> RDiv(R(1), ww[i])]

\* the residual with the sign turned: (data - model)*weights
residual_data_minus_model(model_vals, data, weights) ==
    [i \in DOMAIN data |-> RMul(RSub(data[i], model_vals[i]), weights[i])]

\* Model._residual: (model - data)*weights
residual(model_vals, data, weights) ==
    [i \in DOMAIN data |-> RMul(RSub(model_vals[i], data[i]), weights[i])]

\* model.fit(data, x=x, params=ps, weights=weights): the fit result
Model_fit(model, data, xx, ps, weights, sol) ==
    LET best == minimize(ps, sol)
    IN  [model       |-> model,
         data        |-> data,
         weights     |-> weights,
         init_params |-> ps,
         params      |-> best,
         best_values |-> [n \in DOMAIN best |-> best[n].value],
         best_fit    |-> sol.best_fit,
         residual    |-> residual(sol.best_fit, data, weights),
         success     |-> sol.success]

(***************************************************************************)
(* fit_bkg and fit_sig.  Each gives the fit result it returns, the number  *)
(* of times it ran the solver, and its array and mapping arguments as the  *)
(* call leaves them.                                                       *)
(***************************************************************************)
\* fit_bkg that fits again, from the values reached, when the solver failed
fit_bkg_retry(xx, yy, ww, center, ref, sol) ==
    LET first  == Model_fit("bkg", yy, xx, bkg_params(center, ref),
                            inv_weights(ww), sol)
        second == Model_fit("bkg", yy, xx, first.params, inv_weights(ww),
                            [sol EXCEPT !.success = TRUE])
    IN  [result |-> IF first.success THEN first ELSE second,
         nfits  |-> IF first.success THEN 1 ELSE 2,
         x |-> xx, y |-> yy, w |-> ww]

fit_bkg(xx, yy, ww, center, ref, sol) ==
    [result |-> Model_fit("bkg", yy, xx, bkg_params(center, ref),
                          inv_weights(ww), sol),
     nfits  |-> 1,
     x |-> xx, y |-> yy, w |-> ww]

\* fit_sig that stores the fitted a..f back into the mapping it was given
fit_sig_writeback(xx, yy, ww, x_0, init_params, signal, mu_init, mu_vary, par_vary, sol) ==
    LET res == Model_fit(signal, yy, xx,
                         sig_params(init_params, x_0, mu_init, mu_vary, par_vary),
                         inv_weights(ww), sol)
    IN  [result |-> res,
         nfits  |-> 1,
         x |-> xx, y |-> yy, w |-> ww,
         init_params |-> [n \in DOMAIN init_params |->
                             IF n \in ParamNames THEN res.best_values[n]
                             ELSE init_params[n]]]

fit_sig(xx, yy, ww, x_0, init_params, signal, mu_init, mu_vary, par_vary, sol) ==
    [result |-> Model_fit(signal, yy, xx,
                          sig_params(init_params, x_0, mu_init, mu_vary, par_vary),
                          inv_weights(ww), sol),
     nfits  |-> 1,
     x |-> xx, y |-> yy, w |-> ww,
     init_params |-> init_params]

(***************************************************************************)
(* plot_fit.                                                               *)
(***************************************************************************)
\* int(v): truncation towards zero
Trunc(p) == IF p[1] >= 0 THEN p[1] \div p[2] ELSE -((-p[1]) \div p[2])

\* ceil(v)
Ceil(p) == -((-p[1]) \div p[2])

\* np.max, min and max of an array
ArrMax(arr) == CHOOSE m \in {arr[i] : i \in DOMAIN arr} :
                   \A i \in DOMAIN arr : RLe(arr[i], m)

ArrMin(arr) == CHOOSE m \in {arr[i] : i \in DOMAIN arr} :
                   \A i \in DOMAIN arr : RLe(m, arr[i])

\* the half-range without the + 1
rangeMax_no_plus_one(res) == Trunc(ArrMax(res))

\* rangeMax = int(np.max(fit_result.residual))+1
rangeMax(res) == Trunc(ArrMax(res)) + 1

\* numpy's histogram refuses a range whose lower edge is above its upper edge
hist_raises(lo, hi) == lo > hi

\* what plot_fit draws, whether it raised, what it returned and what it
\* leaves of its arguments
plot_fit(xx, yy, ww, fit_result) ==
    LET rm     == rangeMax(fit_result.residual)
        raised == hist_raises(-rm, rm)
    IN  [xlim       |-> <<ArrMin(xx), ArrMax(xx)>>,
         rangeMax   |-> rm,
         hist_range |-> <<-rm, rm>>,
         raised     |-> raised,
         returned   |-> IF raised THEN <<>> ELSE <<fit_result>>,
         fit_result |-> fit_result,
         x |-> xx, y |-> yy, w |-> ww]

(***************************************************************************)
(* Inputs.                                                                 *)
(***************************************************************************)
Points == 1..NPoints

XGrid == [i \in Points |-> R(999 + i)]
YVals == {R(1), R(3)}
WVals == {R(1), R(2)}
FitVals == {R(0), R(2)}

\* (center, ref) of fit_bkg
BkgInputs == {<<1000, 1000000>>, <<2000, 4000000>>}

X0Vals == {R(1000), R(1001)}
Signals == {"signal_gauss", "signal_maxwell"}
MuInits == {R(-1), R(1)}

\* mappings a..f given by the caller directly
InitDict == [a |-> R(1000), b |-> R(2), c |-> R(1001), d |-> R(3),
             e |-> R(1), f |-> R(0)]

InitDicts == {InitDict,
              [a |-> R(1005), b |-> R(20000), c |-> R(999), d |-> R(22000),
               e |-> R(10), f |-> <<1, 1000000>>]}

Steps == {-1, 1}

\* the answers of the minimiser
Solutions == [step : Steps, best_fit : [Points -> FitVals], success : BOOLEAN]

\* the answers used where calls are repeated
FewSolutions == {s \in Solutions : s.success /\ s.best_fit = [i \in Points |-> R(2)]}

NoPlot == [idx |-> 0]

BkIdle == [args |-> <<>>, done |-> FALSE, out |-> R(0)]

(***************************************************************************)
(* The session: the caller's arrays, the fit calls made so far with their  *)
(* results, and the last plot.                                             *)
(***************************************************************************)
Init ==
    /\ x = XGrid
    /\ y \in [Points -> YVals]
    /\ \E v \in WVals : w = [i \in Points |-> v]
    /\ calls = <<>>
    /\ plot = NoPlot
    /\ bk = BkIdle

call_fit_bkg(center, ref, sol) ==
    LET out == fit_bkg(x, y, w, center, ref, sol)
    IN  /\ calls' = Append(calls,
                       [fn       |-> "fit_bkg",
                        args     |-> [x |-> x, y |-> y, w |-> w,
                                      center |-> center, ref |-> ref],
                        init_ref |-> 0,
                        sol      |-> sol,
                        nfits    |-> out.nfits,
                        result   |-> out.result])
        /\ x' = out.x
        /\ y' = out.y
        /\ w' = out.w
        /\ UNCHANGED <<plot, bk>>

\* init_ref = 0: init_params is the mapping dict; init_ref = k: it is the
\* best_values of the result of call k
call_fit_sig(init_ref, dict, x_0, signal, mu_init, mu_vary, par_vary, sol) ==
    LET init_params == IF init_ref = 0 THEN dict
                       ELSE calls[init_ref].result.best_values
        out  == fit_sig(x, y, w, x_0, init_params, signal, mu_init, mu_vary,
                        par_vary, sol)
        heap == IF init_ref = 0 THEN calls
                ELSE [calls EXCEPT ![init_ref].result.best_values = out.init_params]
    IN  /\ calls' = Append(heap,
                       [fn       |-> "fit_sig",
                        args     |-> [x |-> x, y |-> y, w |-> w, x_0 |-> x_0,
                                      init_params |-> init_params,
                                      signal |-> signal, mu_init |-> mu_init,
                                      mu_vary |-> mu_vary, par_vary |-> par_vary],
                        init_ref |-> init_ref,
                        sol      |-> sol,
                        nfits    |-> out.nfits,
                        result   |-> out.result])
        /\ x' = out.x
        /\ y' = out.y
        /\ w' = out.w
        /\ UNCHANGED <<plot, bk>>

call_plot_fit(k) ==
    LET out == plot_fit(x, y, w, calls[k].result)
    IN  /\ plot' = [idx        |-> k,
                    given      |-> calls[k].result,
                    xlim       |-> out.xlim,
                    rangeMax   |-> out.rangeMax,
                    hist_range |-> out.hist_range,
                    raised     |-> out.raised,
                    returned   |-> out.returned]
        /\ calls' = [calls EXCEPT ![k].result = out.fit_result]
        /\ x' = out.x
        /\ y' = out.y
        /\ w' = out.w
        /\ UNCHANGED bk

\* one fit of either kind on the caller's data, then plots of its result
Next ==
    \/ /\ calls = <<>>
       /\ \E ci \in BkgInputs, sol \in Solutions : call_fit_bkg(ci[1], ci[2], sol)
    \/ /\ calls = <<>>
       /\ \E dict \in InitDicts, x_0 \in X0Vals, signal \in Signals,
             mu_init \in MuInits, mu_vary \in BOOLEAN, par_vary \in BOOLEAN,
             sol \in Solutions :
             call_fit_sig(0, dict, x_0, signal, mu_init, mu_vary, par_vary, sol)
    \/ \E k \in DOMAIN calls : call_plot_fit(k)

Spec == Init /\ [][Next]_vars

\* fit calls in any order, repeated; a signal fit starts from a mapping of
\* the caller or from the best values of any earlier result
InitRepeat ==
    /\ x = XGrid
    /\ \E v \in YVals : y = [i \in Points |-> v]
    /\ \E v \in WVals : w = [i \in Points |-> v]
    /\ calls = <<>>
    /\ plot = NoPlot
    /\ bk = BkIdle

NextRepeat ==
    \/ /\ Len(calls) < MaxCalls
       /\ \E sol \in FewSolutions : call_fit_bkg(1000, 1000000, sol)
    \/ /\ Len(calls) < MaxCalls
       /\ \E init_ref \in 0..Len(calls), par_vary \in BOOLEAN, sol \in FewSolutions :
             call_fit_sig(init_ref, InitDict, R(1000), "signal_gauss", R(1), TRUE,
                          par_vary, sol)

SpecRepeat == InitRepeat /\ [][NextRepeat]_vars

(***************************************************************************)
(* bkg as a pure function: the arguments are drawn, then it is applied.    *)
(***************************************************************************)
BkgVals == {R(v) : v \in (-MaxAbs)..MaxAbs}

InitBkg ==
    /\ x = XGrid
    /\ y = [i \in Points |-> R(1)]
    /\ w = [i \in Points |-> R(1)]
    /\ calls = <<>>
    /\ plot = NoPlot
    /\ \E xx \in BkgVals, a \in BkgVals, b \in BkgVals, c \in BkgVals,
          d \in BkgVals, e \in BkgVals, f \in BkgVals :
          bk = [args |-> <<xx, a, b, c, d, e, f>>, done |-> FALSE, out |-> R(0)]

eval_bkg ==
    /\ ~bk.done
    /\ bk' = [bk EXCEPT !.done = TRUE,
                        !.out = bkg(bk.args[1], bk.args[2], bk.args[3], bk.args[4],
                                    bk.args[5], bk.args[6], bk.args[7])]
    /\ UNCHANGED <<x, y, w, calls, plot>>

NextBkg == eval_bkg

SpecBkg == InitBkg /\ [][NextBkg]_vars

(***************************************************************************)
(* Properties.                                                             *)
(***************************************************************************)
SigCalls == {k \in DOMAIN calls : calls[k].fn = "fit_sig"}

BkgCalls == {k \in DOMAIN calls : calls[k].fn = "fit_bkg"}

\* C1: a call of fit_sig with par_vary = False returns a result whose a, b,
\* c, d, e and f are the values of init_params, for either signal shape and
\* either value of mu_vary.
C1_FixedBackground ==
    \A k \in SigCalls :
        ~calls[k].args.par_vary =>
            \A n \in ParamNames :
                /\ calls[k].result.params[n].value = calls[k].args.init_params[n]
                /\ calls[k].result.best_values[n] = calls[k].args.init_params[n]

\* a fit with the background held fixed in which the free mu did move
C1_Witness ==
    \E k \in SigCalls :
        /\ ~calls[k].args.par_vary
        /\ calls[k].args.mu_vary
        /\ calls[k].args.signal = "signal_maxwell"
        /\ calls[k].result.params["mu"].value
               # calls[k].result.init_params["mu"].value

\* C2: in every call of fit_sig the result carries x0 = x_0 and
\* s = 16*651 = 10416, and neither is varied by the fit.
C2_CenterAndWidthFixed ==
    \A k \in SigCalls :
        /\ calls[k].result.params["x0"].value = calls[k].args.x_0
        /\ calls[k].result.best_values["x0"] = calls[k].args.x_0
        /\ ~calls[k].result.params["x0"].vary
        /\ calls[k].result.params["s"].value = R(10416)
        /\ calls[k].result.best_values["s"] = R(10416)
        /\ ~calls[k].result.params["s"].vary

\* a fit with everything else free, whose a did move
C2_Witness ==
    \E k \in SigCalls :
        /\ calls[k].args.par_vary
        /\ calls[k].args.mu_vary
        /\ calls[k].args.x_0 = R(1001)
        /\ calls[k].result.params["a"].value # calls[k].args.init_params["a"]

Within(v, lo, hi) == RLe(lo, v) /\ RLe(v, hi)

\* C4: in fit_bkg with center > 0, a and c start at center with bounds
\* [0.999*center, 1.01*center], start and end inside them; b, d, e, f start
\* at 2e4, 2.2e4, 1e-2*sqrt(ref), 1e-12*ref without bounds; all six vary.
C4_BackgroundParameters ==
    \A k \in BkgCalls :
        LET center == R(calls[k].args.center)
            ref    == R(calls[k].args.ref)
            ip     == calls[k].result.init_params
            fp     == calls[k].result.params
        IN  RLt(R(0), center) =>
            /\ \A n \in {"a", "c"} :
                  /\ ip[n].value = center
                  /\ ip[n].min = RDiv(RMul(center, R(999)), R(1000))
                  /\ ip[n].max = RDiv(RMul(center, R(101)), R(100))
                  /\ Within(ip[n].value, ip[n].min, ip[n].max)
                  /\ fp[n].min = ip[n].min
                  /\ fp[n].max = ip[n].max
                  /\ Within(fp[n].value, ip[n].min, ip[n].max)
            /\ ip["b"].value = R(20000)
            /\ ip["d"].value = R(22000)
            /\ RLe(R(0), ip["e"].value)
            /\ RMul(RMul(ip["e"].value, ip["e"].value), R(10000)) = ref
            /\ RMul(RMul(ip["f"].value, R(1000000)), R(1000000)) = ref
            /\ \A n \in {"b", "d", "e", "f"} :
                  ip[n].min = NegInf /\ ip[n].max = PosInf
            /\ \A n \in ParamNames : ip[n].vary /\ fp[n].vary

\* a background fit that pushed a and c onto their upper bound
C4_Witness ==
    \E k \in BkgCalls :
        /\ calls[k].result.params["a"].value = calls[k].result.params["a"].max
        /\ calls[k].result.params["c"].value # calls[k].result.init_params["c"].value
        /\ calls[k].result.params["b"].value # R(20000)

C6_RangeMaxTruncPlusOne ==
    plot.idx # 0 =>
        LET m == ArrMax(plot.given.residual)
        IN  /\ plot.rangeMax = Trunc(m) + 1
            /\ plot.hist_range = <<-plot.rangeMax, plot.rangeMax>>
            /\ RLt(m, R(plot.rangeMax))
            /\ Within(m, R(-plot.rangeMax), R(plot.rangeMax)) <=> RLt(R(-1), m)

\* a plot of a result whose largest residual is a whole number, 1
C6_Witness ==
    /\ plot.idx # 0
    /\ ArrMax(plot.given.residual) = R(1)
    /\ ArrMin(plot.given.residual) # R(1)
    /\ plot.rangeMax = 2

\* C6 as stated: rangeMax is ceil(max(residual)), the histogram is drawn
\* over [-rangeMax, rangeMax] and the maximum residual lies in that range.
C6_RangeMaxIsCeil ==
    plot.idx # 0 =>
        LET m == ArrMax(plot.given.residual)
        IN  /\ plot.rangeMax = Ceil(m)
            /\ plot.hist_range = <<-plot.rangeMax, plot.rangeMax>>
            /\ Within(m, R(-plot.rangeMax), R(plot.rangeMax))

\* C7: plot_fit of a fit result completes without raising (numpy raises
\* when the histogram range has its lower bound above its upper bound) and
\* returns the result it was given, leaving the result and x, y, w as they
\* were.
C7_PlotNeverRaises ==
    plot.idx # 0 =>
        /\ ~plot.raised
        /\ plot.hist_range[1] <= plot.hist_range[2]
        /\ plot.returned = <<plot.given>>
        /\ calls[plot.idx].result = plot.given
        /\ x = calls[plot.idx].args.x
        /\ y = calls[plot.idx].args.y
        /\ w = calls[plot.idx].args.w

\* C8: where (x-c)^2 + d^2 # 0, bkg equals the real closed form
\* e^2*((x-a)^2+b^2)/((x-c)^2+d^2) + f*(x-c); with e = 1 and f = 0 that is
\* ((x-a)^2+b^2)/((x-c)^2+d^2).
C8_BkgClosedForm ==
    bk.done =>
        LET xx == bk.args[1]
            a  == bk.args[2]
            b  == bk.args[3]
            c  == bk.args[4]
            d  == bk.args[5]
            e  == bk.args[6]
            f  == bk.args[7]
            num == RAdd(RMul(RSub(xx, a), RSub(xx, a)), RMul(b, b))
            den == RAdd(RMul(RSub(xx, c), RSub(xx, c)), RMul(d, d))
        IN  den # R(0) =>
              /\ IsFinite(bk.out)
              /\ bk.out = RAdd(RDiv(RMul(RMul(e, e), num), den),
                               RMul(f, RSub(xx, c)))
              /\ RMul(RSub(bk.out, RMul(f, RSub(xx, c))), den)
                     = RMul(RMul(e, e), num)
              /\ (e = R(1) /\ f = R(0)) => RMul(bk.out, den) = num

\* bkg applied with b # 0, x # a, x # c, e = 1 and f = 0
C8_Witness ==
    /\ bk.done
    /\ bk.args[3] # R(0)
    /\ bk.args[1] # bk.args[2]
    /\ bk.args[1] # bk.args[4]
    /\ bk.args[6] = R(1)
    /\ bk.args[7] = R(0)
    /\ bk.out = <<2, 1>>

\* a fit call leaves x, y, w and every earlier call's record, its result
\* included, as they were
C9_Frame ==
    /\ x' = x
    /\ y' = y
    /\ w' = w
    /\ \A k \in DOMAIN calls : k \in DOMAIN calls' /\ calls'[k] = calls[k]

\* two calls of the same function with equal arguments, the minimiser
\* answering alike, returned equal results
C9_SameArgsSameResult ==
    \A i, j \in DOMAIN calls :
        (/\ calls[i].fn = calls[j].fn
         /\ calls[i].args = calls[j].args
         /\ calls[i].sol = calls[j].sol)
        => /\ calls[i].result = calls[j].result
           /\ calls[i].nfits = calls[j].nfits

\* C9: in any sequence of fit calls, a call leaves its inputs (x, y, w,
\* init_params, an earlier result whose best values it was given) unchanged
\* and its result depends on its own arguments only.
C9_Stateless == [][C9_Frame /\ C9_SameArgsSameResult']_vars

\* a call, then a signal fit with free background started from the first
\* call's best values, then the first call again
C9_Witness ==
    /\ Len(calls) >= 3
    /\ calls[1].fn = calls[3].fn
    /\ calls[1].args = calls[3].args
    /\ calls[1].sol = calls[3].sol
    /\ calls[2].fn = "fit_sig"
    /\ calls[2].init_ref = 1
    /\ calls[2].args.par_vary
    /\ calls[2].result.best_values["a"] # calls[1].result.best_values["a"]

\* C10: each fit call ran the solver once and returned what it answered:
\* its convergence status and best-fit curve are the solver's.
C10_SolverRunOnce ==
    \A k \in DOMAIN calls :
        /\ calls[k].nfits = 1
        /\ calls[k].result.success = calls[k].sol.success
        /\ calls[k].result.best_fit = calls[k].sol.best_fit
        /\ calls[k].result.params = minimize(calls[k].result.init_params, calls[k].sol)

\* a background fit whose solver did not converge
C10_Witness ==
    \E k \in BkgCalls : ~calls[k].result.success

====
